---- MODULE Spec2Model ----
(***************************************************************************)
(* Model of src/app.py: a Streamlit script that reads the images of an     *)
(* uploaded ZIP, sorts their names naturally, groups them by              *)
(* "images per page", renders one collage page per group and saves the    *)
(* pages as one PDF.                                                       *)
(*                                                                         *)
(* A filename is a sequence of one-character strings, so that splitext,    *)
(* re.split, lower, isdigit and int are computed as the code computes      *)
(* them.  An image is the record of its archive entry name and its pixel   *)
(* size; a page records its grid and every paste made on it.               *)
(*                                                                         *)
(* Scope: one run of main() on one upload.  The entry names of an archive  *)
(* are distinct and every image entry decodes; the RGBA/P to RGB           *)
(* conversion changes no size and is left out.  os.path is posixpath.      *)
(* An uncaught exception ends the run and is recorded in "exception".      *)
(***************************************************************************)
EXTENDS Integers, Sequences, FiniteSets, TLC

\* ------------------------------------------------------------------ bounds
\* longest archive listing drawn from the pool of hand-picked names
MaxFiles == 2
\* longest archive listing of numbered names p1.png, p2.png, ...
MaxImages == 10
\* largest pixel width and height of a decoded image
MaxDim == 2

\* ------------------------------------------------------- program constants
\* st.sidebar.number_input(min_value=1, max_value=25)
MinPerPage == 1
MaxPerPage == 25

\* ------------------------------------------------------------- characters
Digits == <<"0", "1", "2", "3", "4", "5", "6", "7", "8", "9">>

IsDigit(c) == \E i \in 1..Len(Digits) : Digits[i] = c

DigitVal(c) == (CHOOSE i \in 1..Len(Digits) : Digits[i] = c) - 1

\* str.lower() on one character
LowerChar(c) ==
    CASE c = "A" -> "a"
      [] c = "G" -> "g"
      [] c = "N" -> "n"
      [] c = "P" -> "p"
      [] OTHER -> c

\* code point of a character (the order Python compares str by)
Codepoint(c) ==
    CASE c = "." -> 46
      [] c = "/" -> 47
      [] IsDigit(c) -> 48 + DigitVal(c)
      [] c = "A" -> 65
      [] c = "G" -> 71
      [] c = "N" -> 78
      [] c = "P" -> 80
      [] c = "a" -> 97
      [] c = "b" -> 98
      [] c = "d" -> 100
      [] c = "e" -> 101
      [] c = "f" -> 102
      [] c = "g" -> 103
      [] c = "i" -> 105
      [] c = "j" -> 106
      [] c = "m" -> 109
      [] c = "n" -> 110
      [] c = "p" -> 112
      [] c = "t" -> 116
      [] c = "x" -> 120

\* str.lower()
Lower(s) == [i \in 1..Len(s) |-> LowerChar(s[i])]

\* str < str : lexicographic by code point, a proper prefix first
RECURSIVE StrLess(_, _)
StrLess(s, t) ==
    IF t = <<>> THEN FALSE
    ELSE IF s = <<>> THEN TRUE
    ELSE IF s[1] = t[1] THEN StrLess(Tail(s), Tail(t))
    ELSE Codepoint(s[1]) < Codepoint(t[1])

\* str.endswith(suffix)
EndsWith(s, suffix) ==
    /\ Len(suffix) <= Len(s)
    /\ SubSeq(s, Len(s) - Len(suffix) + 1, Len(s)) = suffix

\* str.rfind(c) with 1-based positions, 0 when absent
RFind(s, c) ==
    IF \E i \in 1..Len(s) : s[i] = c
    THEN CHOOSE i \in 1..Len(s) : s[i] = c /\ \A j \in (i+1)..Len(s) : s[j] /= c
    ELSE 0

\* ------------------------------------------------------- alphanumeric_key
\* os.path.splitext: the extension starts at the last dot of the last path
\* component, unless only dots precede it in that component
splitext(p) ==
    LET sepIndex == RFind(p, "/")
        dotIndex == RFind(p, ".")
    IN  IF /\ dotIndex > sepIndex
           /\ \E k \in (sepIndex + 1)..(dotIndex - 1) : p[k] /= "."
        THEN [base |-> SubSeq(p, 1, dotIndex - 1), ext |-> SubSeq(p, dotIndex, Len(p))]
        ELSE [base |-> p, ext |-> <<>>]

\* length of the longest run of digits (digit = TRUE) or of non-digits
\* (digit = FALSE) at the start of s
RECURSIVE RunLen(_, _)
RunLen(s, digit) ==
    IF s = <<>> \/ IsDigit(s[1]) /= digit THEN 0
    ELSE 1 + RunLen(Tail(s), digit)

\* re.split(r'(\d+)', s): text, digits, text, ..., digits, text
RECURSIVE re_split(_)
re_split(s) ==
    LET n0 == RunLen(s, FALSE)
        rest == SubSeq(s, n0 + 1, Len(s))
        n1 == RunLen(rest, TRUE)
    IN  IF n0 = Len(s) THEN <<s>>
        ELSE <<SubSeq(s, 1, n0), SubSeq(rest, 1, n1)>>
             \o re_split(SubSeq(rest, n1 + 1, Len(rest)))

\* str.isdigit()
isdigit(p) == p /= <<>> /\ \A i \in 1..Len(p) : IsDigit(p[i])

\* int(p) of a digit string (arbitrary precision)
RECURSIVE int(_)
int(p) ==
    IF p = <<>> THEN 0
    ELSE 10 * int(SubSeq(p, 1, Len(p) - 1)) + DigitVal(p[Len(p)])

NumberSeg(n) == [tag |-> "Number", num |-> n, text |-> <<>>]
TextSeg(s) == [tag |-> "Text", num |-> 0, text |-> s]

\* int(p) if p.isdigit() else p.lower()
Segment(p) == IF isdigit(p) THEN NumberSeg(int(p)) ELSE TextSeg(Lower(p))

alphanumeric_key(filename) ==
    LET se == splitext(filename)
        parts == re_split(se.base)
    IN  [i \in 1..Len(parts) |-> Segment(parts[i])] \o <<TextSeg(Lower(se.ext))>>

\* ----------------------------------------- list comparison made by sort()
\* a < b for two key elements: int < int, str < str, and TypeError for
\* '<' between an int and a str
SegLess(a, b) ==
    IF a.tag /= b.tag THEN "TypeError"
    ELSE IF a.tag = "Number" THEN (IF a.num < b.num THEN "less" ELSE "notless")
    ELSE IF StrLess(a.text, b.text) THEN "less" ELSE "notless"

\* list < list: the first position where the elements are not equal decides;
\* without one the shorter list is the smaller.  "less", "equal", "greater"
\* or "TypeError".
RECURSIVE KeyCompare(_, _)
KeyCompare(a, b) ==
    IF a = <<>> /\ b = <<>> THEN "equal"
    ELSE IF a = <<>> THEN "less"
    ELSE IF b = <<>> THEN "greater"
    ELSE IF a[1] = b[1] THEN KeyCompare(Tail(a), Tail(b))
    ELSE LET r == SegLess(a[1], b[1])
         IN  IF r = "TypeError" THEN r
             ELSE IF r = "less" THEN "less" ELSE "greater"

Raised == [raised |-> TRUE, files |-> <<>>]
Sorted(files) == [raised |-> FALSE, files |-> files]

\* insert x behind every element that is not greater than it (stable);
\* a comparison that raises aborts the sort
RECURSIVE Insert(_, _)
Insert(s, x) ==
    IF s = <<>> THEN Sorted(<<x>>)
    ELSE LET last == s[Len(s)]
             c == KeyCompare(alphanumeric_key(x), alphanumeric_key(last))
         IN  IF c = "TypeError" THEN Raised
             ELSE IF c = "less"
             THEN LET r == Insert(SubSeq(s, 1, Len(s) - 1), x)
                  IN  IF r.raised THEN Raised ELSE Sorted(r.files \o <<last>>)
             ELSE Sorted(s \o <<x>>)

\* plain lexical order of the names, as sort() without the key would give
RECURSIVE LexInsert(_, _)
LexInsert(s, x) ==
    IF s = <<>> THEN <<x>>
    ELSE IF StrLess(x, s[Len(s)])
    THEN LexInsert(SubSeq(s, 1, Len(s) - 1), x) \o <<s[Len(s)]>>
    ELSE s \o <<x>>

RECURSIVE lexical_sort(_)
lexical_sort(files) ==
    IF files = <<>> THEN Sorted(<<>>)
    ELSE Sorted(LexInsert(lexical_sort(SubSeq(files, 1, Len(files) - 1)).files,
                          files[Len(files)]))

\* list.sort(key=alphanumeric_key): stable, ascending, raises what a
\* comparison raises
RECURSIVE natural_sort(_)
natural_sort(files) ==
    IF files = <<>> THEN Sorted(<<>>)
    ELSE LET r == natural_sort(SubSeq(files, 1, Len(files) - 1))
         IN  IF r.raised THEN Raised ELSE Insert(r.files, files[Len(files)])


\* ------------------------------------------------------- extension filter
valid_extensions == {
    <<".", "j", "p", "g">>,
    <<".", "j", "p", "e", "g">>,
    <<".", "p", "n", "g">>,
    <<".", "b", "m", "p">>,
    <<".", "g", "i", "f">>,
    <<".", "t", "i", "f", "f">> }

\* f.lower().endswith(valid_extensions)
IsImageFile(f) == \E e \in valid_extensions : EndsWith(Lower(f), e)

\* the filter left out
KeepAllFiles(files) == files

\* [f for f in all_files if ...]
RECURSIVE FilterImages(_)
FilterImages(files) ==
    IF files = <<>> THEN <<>>
    ELSE (IF IsImageFile(files[1]) THEN <<files[1]>> ELSE <<>>)
         \o FilterImages(Tail(files))

\* --------------------------------------------------------------- chunker
\* the slice one element long
SliceLong(seq, lo, hi) ==
    SubSeq(seq, lo + 1, IF hi + 1 < Len(seq) THEN hi + 1 ELSE Len(seq))

\* seq[lo:hi] for 0 <= lo <= hi (0-based, hi exclusive, clipped to the end)
Slice(seq, lo, hi) ==
    SubSeq(seq, lo + 1, IF hi < Len(seq) THEN hi ELSE Len(seq))

\* whether range(0, stop, step) still yields pos
InRange(pos, stop, step) == IF step > 0 THEN pos < stop ELSE pos > stop

\* ------------------------------------------------------------ grid shape
\* int(math.ceil(math.sqrt(n)))
RECURSIVE CeilSqrtFrom(_, _)
CeilSqrtFrom(n, c) == IF c * c >= n THEN c ELSE CeilSqrtFrom(n, c + 1)

GridCols(n) == CeilSqrtFrom(n, 0)

\* floor division in place of ceil
GridRowsFloor(n, cols) == n \div cols

\* int(math.ceil(n / cols))
GridRows(n, cols) == (n + cols - 1) \div cols

\* max(f(img) for img in group)
RECURSIVE MaxOf(_)
MaxOf(values) ==
    IF Len(values) = 1 THEN values[1]
    ELSE LET m == MaxOf(Tail(values))
         IN  IF values[1] > m THEN values[1] ELSE m

\* min in place of max
RECURSIVE MinOf(_)
MinOf(values) ==
    IF Len(values) = 1 THEN values[1]
    ELSE LET m == MinOf(Tail(values))
         IN  IF values[1] < m THEN values[1] ELSE m

min_width(group) == MinOf([i \in 1..Len(group) |-> group[i].width])

max_width(group) == MaxOf([i \in 1..Len(group) |-> group[i].width])
max_height(group) == MaxOf([i \in 1..Len(group) |-> group[i].height])

\* collage.paste(img, (x_offset, y_offset)) for the i-th image (from 0)
Paste(img, i, cols, cell_w, cell_h) ==
    [name |-> img.name,
     x_offset |-> (i % cols) * cell_w,
     y_offset |-> (i \div cols) * cell_h,
     width |-> img.width,
     height |-> img.height]

\* one iteration of the loop over the chunks: the collage of one group
Collage(group_of_n) ==
    LET n_in_this_chunk == Len(group_of_n)
        cols == GridCols(n_in_this_chunk)
        rows == GridRows(n_in_this_chunk, cols)
        cell_w == max_width(group_of_n)
        cell_h == max_height(group_of_n)
    IN  [cols |-> cols,
         rows |-> rows,
         max_width |-> cell_w,
         max_height |-> cell_h,
         collage_width |-> cols * cell_w,
         collage_height |-> rows * cell_h,
         pastes |-> [k \in 1..n_in_this_chunk |->
                        Paste(group_of_n[k], k - 1, cols, cell_w, cell_h)]]

\* append_images left out
PdfFirstPageOnly(pages) == <<pages[1]>>

\* collage_pages[0].save(..., save_all=True, append_images=collage_pages[1:])
PdfPages(pages) == <<pages[1]>> \o Tail(pages)

\* ---------------------------------------------------------------- inputs
PNG == <<".", "p", "n", "g">>

\* the names the small archives are listed from
NamePool == {
    <<"a">> \o PNG,
    <<"a", "1">> \o PNG,
    <<"a", "0", "1">> \o PNG,
    <<"a", "2">> \o PNG,
    <<"a", "1", "0">> \o PNG,
    <<"A", "1", ".", "P", "N", "G">>,
    <<"a", "2", ".", "j", "p", "g">>,
    <<"a", "1", "b">> \o PNG,
    <<"b", "9", ".", "g", "i", "f">>,
    <<"d", ".", "1", "/", "a">> \o PNG,
    PNG,
    <<"p", "n", "g">>,
    <<"n", ".", "t", "x", "t">> }

\* decimal digits of k >= 1
RECURSIVE DigitsOf(_)
DigitsOf(k) ==
    IF k < 10 THEN <<Digits[k + 1]>>
    ELSE DigitsOf(k \div 10) \o <<Digits[(k % 10) + 1]>>

\* p1.png, p2.png, ...
Numbered(k) == <<"p">> \o DigitsOf(k) \o PNG

Dims == 1..MaxDim

\* listings of distinct pool names
PoolListings ==
    UNION { { l \in [1..n -> NamePool] : \A i, j \in 1..n : i /= j => l[i] /= l[j] }
            : n \in 0..MaxFiles }

\* numbered names, listed ascending or descending
NumberedListings ==
    UNION { { [i \in 1..n |-> Numbered(i)], [i \in 1..n |-> Numbered(n + 1 - i)] }
            : n \in 1..MaxImages }

\* the k-th entry's size under profile (a, b)
ProfileSize(a, b, k) == <<1 + ((k * a) % MaxDim), 1 + ((k * b) % MaxDim)>>

Entries(listing, sizes) ==
    [i \in 1..Len(listing) |-> [name |-> listing[i], size |-> sizes[i]]]

\* the archives: every pool or numbered listing with sizes following a
\* profile, and every short numbered listing with every choice of sizes
Archives ==
    { Entries(l, [i \in 1..Len(l) |-> ProfileSize(ab[1], ab[2], i)])
        : l \in PoolListings \cup NumberedListings,
          ab \in (0..(MaxDim - 1)) \X (0..(MaxDim - 1)) }
    \cup UNION { { Entries([i \in 1..n |-> Numbered(i)], sz) : sz \in [1..n -> Dims \X Dims] }
                 : n \in 1..MaxFiles }

\* page capacities tried with an archive
PerPageChoices(zip, lowest) ==
    { c \in lowest..MaxPerPage : c <= Len(zip) + 1 \/ c = MaxPerPage }

\* ----------------------------------------------------------------- state
VARIABLES
    uploaded_zip,      \* "none", "bad" (not a ZIP) or "zip"
    archive,           \* the entries of the ZIP, in the archive's order
    images_per_page,   \* the number_input's value
    pc,                \* "upload", "decode", "pages", "done"
    all_files,         \* zip_ref.namelist()
    image_files,       \* filtered and sorted names
    images_list,       \* decoded images
    pos,               \* chunker's position in images_list
    collage_pages,     \* rendered pages
    pdf_buffer,        \* the pages written to the PDF
    download,          \* whether the download button is shown
    messages,          \* st.warning / st.error / st.success calls, in order
    exception          \* the uncaught exception that ended the run, or "none"

vars == <<uploaded_zip, archive, images_per_page, pc, all_files, image_files,
          images_list, pos, collage_pages, pdf_buffer, download, messages,
          exception>>

Start ==
    /\ pc = "upload"
    /\ all_files = <<>>
    /\ image_files = <<>>
    /\ images_list = <<>>
    /\ pos = 0
    /\ collage_pages = <<>>
    /\ pdf_buffer = <<>>
    /\ download = FALSE
    /\ messages = <<>>
    /\ exception = "none"

Uploads(lowest) ==
    /\ \/ uploaded_zip = "zip" /\ archive \in Archives
       \/ uploaded_zip \in {"none", "bad"} /\ archive = <<>>
    /\ images_per_page \in PerPageChoices(archive, lowest)

Init == Uploads(MinPerPage) /\ Start

\* the same run with the capacity not confined to the number_input's range
InitAnyCapacity == Uploads(0 - MaxFiles) /\ Start

\* --------------------------------------------------------------- actions
Finish(msgs, exc) ==
    /\ pc' = "done"
    /\ messages' = messages \o msgs
    /\ exception' = exc

\* if uploaded_zip is not None: false
NoUpload ==
    /\ pc = "upload"
    /\ uploaded_zip = "none"
    /\ Finish(<<>>, "none")
    /\ UNCHANGED <<uploaded_zip, archive, images_per_page, all_files, image_files,
                   images_list, pos, collage_pages, pdf_buffer, download>>

\* except zipfile.BadZipFile
BadZipFile ==
    /\ pc = "upload"
    /\ uploaded_zip = "bad"
    /\ Finish(<<"error: not a valid ZIP archive">>, "none")
    /\ UNCHANGED <<uploaded_zip, archive, images_per_page, all_files, image_files,
                   images_list, pos, collage_pages, pdf_buffer, download>>

SizeOf(name) == (CHOOSE e \in {archive[i] : i \in 1..Len(archive)} : e.name = name).size

\* namelist, filter, sort, and the check for an empty list
ListImages ==
    /\ pc = "upload"
    /\ uploaded_zip = "zip"
    /\ LET names == [i \in 1..Len(archive) |-> archive[i].name]
           s == natural_sort(FilterImages(names))
       IN  /\ all_files' = names
           /\ image_files' = s.files
           /\ IF s.raised THEN Finish(<<>>, "TypeError")
              ELSE IF s.files = <<>>
              THEN Finish(<<"warning: No valid image files found in the ZIP.">>, "none")
              ELSE pc' = "decode" /\ UNCHANGED <<messages, exception>>
    /\ UNCHANGED <<uploaded_zip, archive, images_per_page, images_list, pos,
                   collage_pages, pdf_buffer, download>>

\* one iteration of "for image_file in image_files"
DecodeImage ==
    /\ pc = "decode"
    /\ LET image_file == image_files[Len(images_list) + 1]
           size == SizeOf(image_file)
           img == [name |-> image_file, width |-> size[1], height |-> size[2]]
       IN  images_list' = Append(images_list, img)
    /\ pc' = IF Len(images_list') = Len(image_files) THEN "pages" ELSE "decode"
    /\ UNCHANGED <<uploaded_zip, archive, images_per_page, all_files, image_files,
                   pos, collage_pages, pdf_buffer, download, messages, exception>>

\* one iteration of "for group_of_n in chunker(images_list, images_per_page)"
RenderPage ==
    /\ pc = "pages"
    /\ IF images_per_page = 0
       THEN /\ Finish(<<>>, "ValueError")
            /\ UNCHANGED <<pos, collage_pages>>
       ELSE /\ InRange(pos, Len(images_list), images_per_page)
            /\ collage_pages' =
                 Append(collage_pages,
                        Collage(Slice(images_list, pos, pos + images_per_page)))
            /\ pos' = pos + images_per_page
            /\ UNCHANGED <<pc, messages, exception>>
    /\ UNCHANGED <<uploaded_zip, archive, images_per_page, all_files, image_files,
                   images_list, pdf_buffer, download>>

\* the loop is over: save the PDF and offer it, or warn
CreatePdf ==
    /\ pc = "pages"
    /\ images_per_page /= 0
    /\ ~InRange(pos, Len(images_list), images_per_page)
    /\ IF collage_pages /= <<>>
       THEN /\ pdf_buffer' = PdfPages(collage_pages)
            /\ download' = TRUE
            /\ Finish(<<"success: PDF created successfully">>, "none")
       ELSE /\ Finish(<<"warning: No collage pages were created.">>, "none")
            /\ UNCHANGED <<pdf_buffer, download>>
    /\ UNCHANGED <<uploaded_zip, archive, images_per_page, all_files, image_files,
                   images_list, pos, collage_pages>>

Next ==
    \/ NoUpload
    \/ BadZipFile
    \/ ListImages
    \/ DecodeImage
    \/ RenderPage
    \/ CreatePdf

Spec == Init /\ [][Next]_vars

SpecAnyCapacity == InitAnyCapacity /\ [][Next]_vars


\* ============================================================ properties
Names(seq) == [i \in 1..Len(seq) |-> seq[i].name]

RECURSIVE Flatten(_)
Flatten(seqs) == IF seqs = <<>> THEN <<>> ELSE seqs[1] \o Flatten(Tail(seqs))

\* the names pasted on the pages, page after page, cell after cell
PastedNames(pages) == Flatten([p \in 1..Len(pages) |-> Names(pages[p].pastes)])

Range(seq) == {seq[i] : i \in 1..Len(seq)}

Built == pc = "done" /\ download

\* keys a and b are the same but for one Number segment, smaller in a
SmallerNumberAt(a, b) ==
    /\ Len(a) = Len(b)
    /\ \E p \in 1..Len(a) :
         /\ a[p].tag = "Number" /\ b[p].tag = "Number"
         /\ a[p].num < b[p].num
         /\ \A q \in 1..Len(a) : q /= p => a[q] = b[q]

\* C1: comparing the keys of two filtered names never raises, whatever the
\* tags of the segments facing each other, so the sort of the filtered names
\* always completes.
C1_CompareNeverRaises ==
    /\ exception /= "TypeError"
    /\ \A f, g \in Range(FilterImages(all_files)) :
         KeyCompare(alphanumeric_key(f), alphanumeric_key(g)) /= "TypeError"

\* C2: of two names whose keys differ in one Number segment only, the sorted
\* list has the one with the numerically smaller digit run first, whatever
\* the lengths of the digit strings.
C2_NumericRunOrder ==
    \A i, j \in 1..Len(image_files) :
        SmallerNumberAt(alphanumeric_key(image_files[i]), alphanumeric_key(image_files[j]))
            => i < j

A2 == <<"a", "2">> \o PNG
A10 == <<"a", "1", "0">> \o PNG

C2_Witness ==
    /\ all_files = <<A10, A2>>
    /\ image_files = <<A2, A10>>
    /\ Built

\* C3: the pages of a build are ceil(total / capacity) chunks of the image
\* list: none empty, none above capacity, all but the last of exactly
\* capacity images, and together, in order, the whole list.
C3_Chunks ==
    (pc = "done" /\ images_list /= <<>> /\ exception = "none") =>
        LET total == Len(images_list)
            k == Len(collage_pages)
        IN  /\ (k - 1) * images_per_page < total
            /\ total <= k * images_per_page
            /\ \A p \in 1..k :
                 /\ Len(collage_pages[p].pastes) >= 1
                 /\ Len(collage_pages[p].pastes) <= images_per_page
                 /\ p < k => Len(collage_pages[p].pastes) = images_per_page
            /\ PastedNames(collage_pages) = Names(images_list)

C3_Witness ==
    /\ Built
    /\ Len(images_list) = 10
    /\ images_per_page = 4
    /\ [p \in 1..Len(collage_pages) |-> Len(collage_pages[p].pastes)] = <<4, 4, 2>>

\* C4: the grid of a page of n images has C = ceil(sqrt(n)) columns and
\* R = ceil(n / C) rows, with C*R >= n >= C*(R-1)+1; the shape follows from n
\* alone (1 -> 1x1, 4 -> 2x2, 5 -> 3x2, 9 -> 3x3).
C4_GridShape ==
    \A p \in 1..Len(collage_pages) :
        LET n == Len(collage_pages[p].pastes)
            C == collage_pages[p].cols
            R == collage_pages[p].rows
        IN  /\ (C - 1) * (C - 1) < n /\ n <= C * C
            /\ C * R >= n /\ n >= C * (R - 1) + 1
            /\ n = 1 => C = 1 /\ R = 1
            /\ n = 4 => C = 2 /\ R = 2
            /\ n = 5 => C = 3 /\ R = 2
            /\ n = 9 => C = 3 /\ R = 3

C4_Witness ==
    /\ images_per_page = 6
    /\ \E p \in 1..Len(collage_pages) :
         /\ Len(collage_pages[p].pastes) = 5
         /\ collage_pages[p].cols = 3
         /\ collage_pages[p].rows = 2

\* C5: on every page the cell is the largest width and height of the chunk,
\* the canvas is C cells wide and R cells high, the i-th image is pasted at
\* ((i mod C)*cellWidth, (i div C)*cellHeight), inside its cell and inside
\* the canvas, and no two images of the page overlap.
C5_Placement ==
    \A p \in 1..Len(collage_pages) :
        LET page == collage_pages[p]
            n == Len(page.pastes)
        IN  /\ page.collage_width = page.cols * page.max_width
            /\ page.collage_height = page.rows * page.max_height
            /\ \E i \in 1..n : page.pastes[i].width = page.max_width
            /\ \E i \in 1..n : page.pastes[i].height = page.max_height
            /\ \A i \in 1..n :
                 LET a == page.pastes[i]
                 IN  /\ a.x_offset = ((i - 1) % page.cols) * page.max_width
                     /\ a.y_offset = ((i - 1) \div page.cols) * page.max_height
                     /\ a.width <= page.max_width
                     /\ a.height <= page.max_height
                     /\ a.x_offset + a.width <= page.collage_width
                     /\ a.y_offset + a.height <= page.collage_height
            /\ \A i, j \in 1..n :
                 LET a == page.pastes[i]
                     b == page.pastes[j]
                 IN  i /= j =>
                       \/ a.x_offset + a.width <= b.x_offset
                       \/ b.x_offset + b.width <= a.x_offset
                       \/ a.y_offset + a.height <= b.y_offset
                       \/ b.y_offset + b.height <= a.y_offset

C5_Witness ==
    \E p \in 1..Len(collage_pages) :
        LET page == collage_pages[p]
        IN  /\ Len(page.pastes) = 3
            /\ page.pastes[1].width < page.pastes[2].width
            /\ page.pastes[3].height < page.pastes[2].height
            /\ page.pastes[3].y_offset > 0

\* C6: after a successful build the PDF has one page per chunk, starting
\* with the first chunk's page; the image at sorted position k is in cell
\* k mod capacity of page k div capacity, so that every qualifying image is
\* on exactly one page exactly once and the pages read in natural order.
C6_Document ==
    Built =>
        LET total == Len(image_files)
            k == Len(pdf_buffer)
        IN  /\ k = Len(collage_pages)
            /\ (k - 1) * images_per_page < total /\ total <= k * images_per_page
            /\ pdf_buffer[1] = collage_pages[1]
            /\ \A i \in 0..(total - 1) :
                 LET page == pdf_buffer[(i \div images_per_page) + 1]
                 IN  /\ Len(page.pastes) >= (i % images_per_page) + 1
                     /\ page.pastes[(i % images_per_page) + 1].name = image_files[i + 1]
            /\ Len(PastedNames(pdf_buffer)) = total
            /\ Range(PastedNames(pdf_buffer)) = {f \in Range(all_files) : IsImageFile(f)}
            /\ Cardinality(Range(PastedNames(pdf_buffer))) = total
            /\ \A i, j \in 1..total :
                 i < j => KeyCompare(alphanumeric_key(image_files[i]),
                                     alphanumeric_key(image_files[j])) \in {"less", "equal"}

C6_Witness ==
    /\ Built
    /\ Len(pdf_buffer) = 3
    /\ images_per_page = 2
    /\ all_files[1] = Numbered(Len(all_files))
    /\ pdf_buffer[1].pastes[1].name = Numbered(1)

C8_EmptyInput ==
    (uploaded_zip = "zip" /\ \A i \in 1..Len(archive) : ~IsImageFile(archive[i].name)) =>
        /\ images_list = <<>>
        /\ collage_pages = <<>>
        /\ pdf_buffer = <<>>
        /\ ~download
        /\ pc \in {"upload", "done"}
        /\ pc = "done" =>
             /\ messages = <<"warning: No valid image files found in the ZIP.">>
             /\ exception = "none"

C8_Witness ==
    /\ pc = "done"
    /\ Len(all_files) = 2
    /\ \A i \in 1..Len(archive) : ~IsImageFile(archive[i].name)
    /\ messages = <<"warning: No valid image files found in the ZIP.">>

\* the listing with the entries at i and j exchanged
Swap(files, i, j) ==
    [k \in 1..Len(files) |-> IF k = i THEN files[j] ELSE IF k = j THEN files[i] ELSE files[k]]

\* C9: the order of the images on the pages depends on the set of entry
\* names only, not on the order in which the archive lists them, also for
\* distinct names with equal keys.
C9_OrderIndependent ==
    pc = "done" =>
        \A i, j \in 1..Len(all_files) :
            LET other == natural_sort(FilterImages(Swap(all_files, i, j)))
            IN  /\ other.raised = (exception = "TypeError")
                /\ other.files = image_files

\* C10: during a build at most one chunk's worth of decoded images is held:
\* never more than capacity, and none of an earlier chunk once a later
\* chunk's page is being rendered.
C10_OneChunkHeld ==
    pc \in {"decode", "pages"} =>
        /\ Len(images_list) <= images_per_page
        /\ \A k \in 1..Len(images_list) : k > pos

====
